---- MODULE Spec2Model ----
(***************************************************************************)
(* Model of the tfbd Map event directory (src/app/page.tsx).  The file     *)
(* holds two page variants that load a list of events and filter it on     *)
(* five text fields:                                                       *)
(*   - the React component TFBDMap (lines 16-192), and                     *)
(*   - the plain script (lines 253-382: fetchEventsData,                   *)
(*     handleFilterChange, renderTable),                                   *)
(* and a fragment of a third variant (lines 194-252: safe, isValidHttpUrl, *)
(* rowHtml).                                                               *)
(*                                                                         *)
(* A JavaScript string is modelled as a sequence of one-character strings, *)
(* an event object as a TLA+ record whose DOMAIN is the set of properties  *)
(* the object has (a missing property is a missing field of the record).   *)
(***************************************************************************)
EXTENDS Integers, Sequences, FiniteSets, TLC

\* Bound: the largest number of records in a payload.
MaxEvents == 2

-----------------------------------------------------------------------------
(* Strings                                                                 *)

Upper == <<"A","B","C","D","E","F","G","H","I","J","K","L","M",
           "N","O","P","Q","R","S","T","U","V","W","X","Y","Z">>
Lower == <<"a","b","c","d","e","f","g","h","i","j","k","l","m",
           "n","o","p","q","r","s","t","u","v","w","x","y","z">>
Digits == {"0","1","2","3","4","5","6","7","8","9"}
Alpha == {Upper[i] : i \in DOMAIN Upper} \cup {Lower[i] : i \in DOMAIN Lower}

\* String.prototype.toLowerCase, one character
toLowerCaseChar(c) ==
  IF \E i \in DOMAIN Upper : Upper[i] = c
  THEN Lower[CHOOSE i \in DOMAIN Upper : Upper[i] = c]
  ELSE c

\* String.prototype.toLowerCase
toLowerCase(s) == [i \in DOMAIN s |-> toLowerCaseChar(s[i])]

\* String.prototype.indexOf(q) scanning from position k (1-based); 0 = not found
RECURSIVE indexOfFrom(_, _, _)
indexOfFrom(s, q, k) ==
  IF k + Len(q) - 1 > Len(s) THEN 0
  ELSE IF SubSeq(s, k, k + Len(q) - 1) = q THEN k
  ELSE indexOfFrom(s, q, k + 1)

\* String.prototype.includes
includes(s, q) == indexOfFrom(s, q, 1) # 0

\* String.prototype.trim (the only white space of the model is " ")
RECURSIVE trimStart(_)
trimStart(s) == IF s # <<>> /\ Head(s) = " " THEN trimStart(Tail(s)) ELSE s
RECURSIVE trimEnd(_)
trimEnd(s) ==
  IF s # <<>> /\ s[Len(s)] = " " THEN trimEnd(SubSeq(s, 1, Len(s) - 1)) ELSE s
trim(s) == trimEnd(trimStart(s))

-----------------------------------------------------------------------------
(* Event objects                                                           *)

Fields == <<"name", "start_date", "end_date", "location", "url">>
FieldSet == {Fields[i] : i \in DOMAIN Fields}

\* obj.prop !== undefined
Has(obj, prop) == prop \in DOMAIN obj

Complete(event) == \A fld \in FieldSet : Has(event, fld)


\* Event objects the server may send.  E1, E2, E3 and E5 are complete;
\* E4 has no url property (it carries the aliased property link instead).
E1 == [name |-> <<"S","a">>, start_date |-> <<"M","1">>, end_date |-> <<"M","2">>,
       location |-> <<"M","i">>, url |-> <<"h","t","t","p",":","/","/","x">>]
E2 == [name |-> <<"b">>, start_date |-> <<"m","1">>, end_date |-> <<"m","2">>,
       location |-> <<"K">>, url |-> <<"f","t","p",":","/","/","x">>]
E3 == [name |-> <<"S","b">>, start_date |-> <<"1">>, end_date |-> <<"2">>,
       location |-> <<"M","i">>, url |-> <<"/","x">>]
E4 == [name |-> <<"b">>, start_date |-> <<"M","1">>, end_date |-> <<"2">>,
       location |-> <<"K">>, link |-> <<"h","t","t","p","s",":","/","/","x">>]
E5 == [name |-> <<"S","a">>, start_date |-> <<"1">>, end_date |-> <<"M","2">>,
       location |-> <<>>, url |-> <<>>]
EventPool == {E1, E2, E3, E4, E5}

\* JSON arrays of at most MaxEvents event objects
Datasets == UNION {[1..n -> EventPool] : n \in 0..MaxEvents}

\* Texts the user may put in each filter input
FilterTexts(fld) ==
  CASE fld = "name"       -> {<<>>, <<"s">>}
    [] fld = "start_date" -> {<<>>, <<"m">>}
    [] fld = "end_date"   -> {<<>>, <<"2">>}
    [] fld = "location"   -> {<<>>, <<"k">>}
    [] fld = "url"        -> {<<>>, <<"H">>}

\* useState initial value of filters (lines 20-26); also the empty DOM inputs
EmptyFilters == [name |-> <<>>, start_date |-> <<>>, end_date |-> <<>>,
                 location |-> <<>>, url |-> <<>>]

-----------------------------------------------------------------------------
(* The filter predicates.  A JavaScript && chain evaluates left to right   *)
(* and stops at the first false operand; reading .toLowerCase or .includes *)
(* of a missing property throws a TypeError.  The result is "true",        *)
(* "false" or "throw".                                                     *)

\* ReactFieldTest with the location operand left out of the chain
ReactFieldTest_NoLocation(fld, text, q) ==
  IF fld = "location" THEN TRUE
  ELSE IF fld \in {"start_date", "end_date"}
  THEN includes(text, q)
  ELSE includes(toLowerCase(text), toLowerCase(q))

\* One operand of the React predicate (lines 44-48)
ReactFieldTest(fld, text, q) ==
  IF fld \in {"start_date", "end_date"}
  THEN includes(text, q)
  ELSE includes(toLowerCase(text), toLowerCase(q))

\* One operand of the script predicate (lines 327-331); q is already lowered
ScriptFieldTest(fld, text, q) == includes(toLowerCase(text), q)

\* The && chain of lines 43-49, operands k..5
RECURSIVE ReactPredicateFrom(_, _, _)
ReactPredicateFrom(event, f, k) ==
  IF k > Len(Fields) THEN "true"
  ELSE IF ~Has(event, Fields[k]) THEN "throw"
  ELSE IF ~ReactFieldTest(Fields[k], event[Fields[k]], f[Fields[k]]) THEN "false"
  ELSE ReactPredicateFrom(event, f, k + 1)

ReactPredicate(event, f) == ReactPredicateFrom(event, f, 1)

\* The && chain of lines 326-332, operands k..5
RECURSIVE ScriptPredicateFrom(_, _, _)
ScriptPredicateFrom(event, f, k) ==
  IF k > Len(Fields) THEN "true"
  ELSE IF ~Has(event, Fields[k]) THEN "throw"
  ELSE IF ~ScriptFieldTest(Fields[k], event[Fields[k]], f[Fields[k]]) THEN "false"
  ELSE ScriptPredicateFrom(event, f, k + 1)

ScriptPredicate(event, f) == ScriptPredicateFrom(event, f, 1)

\* Array.prototype.filter: visits the elements in index order and appends
\* the accepted ones to a new array; a throwing callback aborts the call.
RECURSIVE ReactFilterFrom(_, _, _, _)
ReactFilterFrom(arr, f, k, acc) ==
  IF k > Len(arr) THEN [threw |-> FALSE, value |-> acc]
  ELSE LET r == ReactPredicate(arr[k], f)
       IN  IF r = "throw" THEN [threw |-> TRUE, value |-> <<>>]
           ELSE ReactFilterFrom(arr, f, k + 1,
                                IF r = "true" THEN Append(acc, arr[k]) ELSE acc)

\* ReactFilter with the accepted elements put at the front of the result
ReactFilter_Unshift(arr, f) ==
  LET r == ReactFilterFrom(arr, f, 1, <<>>)
  IN  [threw |-> r.threw,
       value |-> [i \in DOMAIN r.value |-> r.value[Len(r.value) + 1 - i]]]

\* events.filter(...) of lines 42-50
ReactFilter(arr, f) == ReactFilterFrom(arr, f, 1, <<>>)

RECURSIVE ScriptFilterFrom(_, _, _, _)
ScriptFilterFrom(arr, f, k, acc) ==
  IF k > Len(arr) THEN [threw |-> FALSE, value |-> acc]
  ELSE LET r == ScriptPredicate(arr[k], f)
       IN  IF r = "throw" THEN [threw |-> TRUE, value |-> <<>>]
           ELSE ScriptFilterFrom(arr, f, k + 1,
                                 IF r = "true" THEN Append(acc, arr[k]) ELSE acc)

\* eventsData.filter(...) of lines 325-333
ScriptFilter(arr, f) == ScriptFilterFrom(arr, f, 1, <<>>)

\* The filters object of lines 317-323: every input value lower-cased
LoweredInputs(in) == [fld \in FieldSet |-> toLowerCase(in[fld])]

-----------------------------------------------------------------------------
(* Rendering                                                               *)

\* safe(val): (val ?? "").toString().trim(); obj[prop] may be missing
safe(obj, prop) == IF Has(obj, prop) THEN trim(obj[prop]) ELSE <<>>

\* Position of the ":" that ends a URL scheme, scanning from k; 0 = none
RECURSIVE SchemeEndFrom(_, _)
SchemeEndFrom(s, k) ==
  IF k > Len(s) THEN 0
  ELSE IF s[k] = ":" THEN k
  ELSE IF s[k] \in Alpha \cup Digits \cup {"+", "-", "."} THEN SchemeEndFrom(s, k + 1)
  ELSE 0

SchemeEnd(s) == IF s = <<>> \/ s[1] \notin Alpha THEN 0 ELSE SchemeEndFrom(s, 2)

RECURSIVE SkipSlashes(_)
SkipSlashes(s) ==
  IF s # <<>> /\ Head(s) \in {"/", "\\"} THEN SkipSlashes(Tail(s)) ELSE s

RECURSIVE HostOf(_)
HostOf(s) ==
  IF s = <<>> \/ Head(s) \in {"/", "\\", "?", "#"} THEN <<>>
  ELSE <<Head(s)>> \o HostOf(Tail(s))

SpecialSchemes == {<<"h","t","t","p">>, <<"h","t","t","p","s">>, <<"f","t","p">>,
                   <<"w","s">>, <<"w","s","s">>}
ForbiddenHostChars == {" ", "<", ">", "[", "]", "^", "|", "%"}

\* new URL(s).protocol without a base URL; <<>> stands for the TypeError that
\* the constructor throws on a string that is not an absolute URL
URLProtocol(s) ==
  LET t == trim(s)
      e == SchemeEnd(t)
      scheme == toLowerCase(SubSeq(t, 1, e - 1))
      host == HostOf(SkipSlashes(SubSeq(t, e + 1, Len(t))))
  IN  IF e = 0 THEN <<>>
      ELSE IF scheme \in SpecialSchemes
              /\ (host = <<>> \/ \E i \in DOMAIN host : host[i] \in ForbiddenHostChars)
      THEN <<>>
      ELSE Append(scheme, ":")

\* isValidHttpUrl (lines 230-237)
isValidHttpUrl(maybeUrl) ==
  URLProtocol(maybeUrl) \in {<<"h","t","t","p",":">>, <<"h","t","t","p","s",":">>}

\* rowHtml (lines 240-247): the text of the href, and whether an <a> is emitted
rowHtml(evt) ==
  LET urlRaw == IF Has(evt, "url") /\ evt.url # <<>> THEN safe(evt, "url")
                ELSE safe(evt, "link")
      url == IF isValidHttpUrl(urlRaw) THEN urlRaw ELSE <<>>
  IN  [anchor |-> url # <<>>, href |-> url]

\* The table row of the React component (lines 164-179): the <a> is emitted
\* unconditionally, with href={event.url}
ReactRow(event) ==
  [anchor |-> TRUE, href |-> IF Has(event, "url") THEN event.url ELSE <<>>]

\* One row appended by renderTable (lines 345-381)
ScriptRow(event) ==
  LET linked == Has(event, "url") /\ event.url # <<>> /\ trim(event.url) # <<>>
  IN  [anchor |-> linked, href |-> IF linked THEN event.url ELSE <<>>]

\* renderTable (lines 339-382): tbody is emptied and refilled from filteredData
renderTable(fd) == [i \in DOMAIN fd |-> ScriptRow(fd[i])]

-----------------------------------------------------------------------------
(* The outcome of the one fetch                                            *)

Bodies == {[kind |-> "text"], [kind |-> "object"]}
            \cup {[kind |-> "array", data |-> d] : d \in Datasets}

\* a rejected fetch, or a response with its status class and its body
Outcomes == {[rejected |-> TRUE]}
              \cup {[rejected |-> FALSE, ok |-> k, body |-> b] : k \in BOOLEAN, b \in Bodies}

\* How the load ended, in the terms of the loader's contract
Classify(o) ==
  IF o.rejected THEN "network_error"
  ELSE IF ~o.ok THEN "bad_status"
  ELSE IF o.body.kind # "array" THEN "malformed"
  ELSE "loaded"

-----------------------------------------------------------------------------
(* State                                                                   *)

VARIABLES
  impl,             \* which page variant runs: "react" or "script"
  loadState,        \* "pending" while the fetch is in flight, then Classify
  last,             \* the handler that ran last: "init", "load", "filter", "toggle"
  events,           \* React state (line 17)
  filteredEvents,   \* React state (line 18)
  filtersExpanded,  \* React state (line 19)
  filters,          \* React state (lines 20-26)
  effectPending,    \* the filter effect (lines 40-52) is scheduled
  crashed,          \* an uncaught error unmounted the React tree
  eventsData,       \* script global (line 254)
  filteredData,     \* script global (line 255)
  inputs,           \* values of the five .filter-input elements
  tbody,            \* rows of #events-tbody
  threw             \* the last script handler ended in an uncaught TypeError

reactVars == <<events, filteredEvents, filtersExpanded, filters, effectPending, crashed>>
scriptVars == <<eventsData, filteredData, inputs, tbody, threw>>
vars == <<impl, loadState, last, reactVars, scriptVars>>

\* After the first render and its effects (React), or after DOMContentLoaded
\* (script): everything empty, the fetch in flight.
Init ==
  /\ impl \in {"react", "script"}
  /\ loadState = "pending"
  /\ last = "init"
  /\ events = <<>>
  /\ filteredEvents = <<>>
  /\ filtersExpanded = TRUE
  /\ filters = EmptyFilters
  /\ effectPending = FALSE
  /\ crashed = FALSE
  /\ eventsData = <<>>
  /\ filteredData = <<>>
  /\ inputs = EmptyFilters
  /\ tbody = <<>>
  /\ threw = FALSE

-----------------------------------------------------------------------------
(* The React component                                                     *)

\* The load effect (lines 29-38), from the fetch settling to the end of the
\* promise chain and of the render it causes.  res.ok is never read.  A
\* rejected fetch, or a body that res.json() cannot parse, ends in .catch
\* and changes nothing.  Any parsed value goes to setEvents and
\* setFilteredEvents (one batched render): an array schedules the filter
\* effect, anything else makes filteredEvents.map throw during render.
ReactLoad(o) ==
  /\ impl = "react"
  /\ loadState = "pending"
  /\ ~effectPending
  /\ ~crashed
  /\ loadState' = Classify(o)
  /\ last' = "load"
  /\ IF o.rejected \/ o.body.kind = "text"
     THEN UNCHANGED <<events, filteredEvents, effectPending, crashed>>
     ELSE IF o.body.kind = "array"
     THEN /\ events' = o.body.data
          /\ filteredEvents' = o.body.data
          /\ effectPending' = TRUE
          /\ UNCHANGED crashed
     ELSE /\ crashed' = TRUE
          /\ UNCHANGED <<events, filteredEvents, effectPending>>
  /\ UNCHANGED <<impl, filtersExpanded, filters, scriptVars>>

\* The filter effect (lines 40-52), run after a render in which filters or
\* events changed.  A TypeError thrown by the predicate is uncaught.
ReactFilterEffect ==
  /\ impl = "react"
  /\ effectPending
  /\ ~crashed
  /\ LET filtered == ReactFilter(events, filters)
     IN  IF filtered.threw
         THEN /\ crashed' = TRUE
              /\ UNCHANGED filteredEvents
         ELSE /\ filteredEvents' = filtered.value
              /\ UNCHANGED crashed
  /\ effectPending' = FALSE
  /\ UNCHANGED <<impl, loadState, last, events, filtersExpanded, filters, scriptVars>>

\* onChange of one filter input: handleFilterChange (lines 54-56)
ReactHandleFilterChange(field, value) ==
  /\ impl = "react"
  /\ ~effectPending
  /\ ~crashed
  /\ value # filters[field]
  /\ filters' = [filters EXCEPT ![field] = value]
  /\ effectPending' = TRUE
  /\ last' = "filter"
  /\ UNCHANGED <<impl, loadState, events, filteredEvents, filtersExpanded, crashed,
                 scriptVars>>

\* ReactToggle that also resets the filter strings
ReactToggle_ResetsFilters ==
  /\ impl = "react"
  /\ ~effectPending
  /\ ~crashed
  /\ filtersExpanded' = ~filtersExpanded
  /\ filters' = EmptyFilters
  /\ effectPending' = TRUE
  /\ last' = "toggle"
  /\ UNCHANGED <<impl, loadState, events, filteredEvents, crashed, scriptVars>>

\* onClick of the toggle button (line 96)
ReactToggle ==
  /\ impl = "react"
  /\ ~effectPending
  /\ ~crashed
  /\ filtersExpanded' = ~filtersExpanded
  /\ last' = "toggle"
  /\ UNCHANGED <<impl, loadState, events, filteredEvents, filters, effectPending,
                 crashed, scriptVars>>

-----------------------------------------------------------------------------
(* The script                                                              *)

\* fetchEventsData (lines 294-313), from the fetch settling to its return.
\* Only an ok response whose body parses to an array keeps its data: a
\* rejected fetch and an unparsable body throw inside try, a parsed body that
\* is not an array makes the spread of line 299 throw, and a response that is
\* not ok takes the else branch.  The filter inputs are not read.
fetchEventsData(o) ==
  /\ impl = "script"
  /\ loadState = "pending"
  /\ loadState' = Classify(o)
  /\ last' = "load"
  /\ IF ~o.rejected /\ o.ok /\ o.body.kind = "array"
     THEN /\ eventsData' = o.body.data
          /\ filteredData' = o.body.data
     ELSE /\ eventsData' = <<>>
          /\ filteredData' = <<>>
  /\ tbody' = renderTable(filteredData')
  /\ threw' = FALSE
  /\ UNCHANGED <<impl, inputs, reactVars>>

\* An input event on one .filter-input: handleFilterChange (lines 316-336).
\* When the predicate throws, the assignment of line 325 and renderTable do
\* not happen.
ScriptHandleFilterChange(field, value) ==
  /\ impl = "script"
  /\ value # inputs[field]
  /\ inputs' = [inputs EXCEPT ![field] = value]
  /\ last' = "filter"
  /\ LET r == ScriptFilter(eventsData, LoweredInputs(inputs'))
     IN  IF r.threw
         THEN /\ threw' = TRUE
              /\ UNCHANGED <<filteredData, tbody>>
         ELSE /\ threw' = FALSE
              /\ filteredData' = r.value
              /\ tbody' = renderTable(r.value)
  /\ UNCHANGED <<impl, loadState, eventsData, reactVars>>

Next ==
  \/ \E o \in Outcomes : ReactLoad(o)
  \/ ReactFilterEffect
  \/ \E field \in FieldSet : \E value \in FilterTexts(field) :
       ReactHandleFilterChange(field, value)
  \/ ReactToggle
  \/ \E o \in Outcomes : fetchEventsData(o)
  \/ \E field \in FieldSet : \E value \in FilterTexts(field) :
       ScriptHandleFilterChange(field, value)

Spec == Init /\ [][Next]_vars

-----------------------------------------------------------------------------
(* Vocabulary of the properties                                            *)

\* The canonical dataset, the filtered view and the filter strings of the
\* variant that runs
Dataset == IF impl = "react" THEN events ELSE eventsData
View == IF impl = "react" THEN filteredEvents ELSE filteredData
FilterState == IF impl = "react" THEN filters ELSE inputs

\* No handler or effect is under way or was cut short by an uncaught error
Quiescent == IF impl = "react" THEN ~effectPending /\ ~crashed ELSE ~threw

\* The view is the result of a filter run on the present dataset and filters
Recomputed ==
  IF impl = "react" THEN ~effectPending /\ ~crashed
  ELSE last = "filter" /\ ~threw

AllComplete(d) == \A k \in DOMAIN d : Complete(d[k])

\* q occurs in text as a contiguous substring
Contains(text, q) ==
  \E i \in 0..(Len(text) - Len(q)) : SubSeq(text, i + 1, i + Len(q)) = q

\* The field test of the filter contract: name, location and url ignore
\* letter case; for the two dates the React variant compares exactly and the
\* script ignores case
FieldHolds(fld, text, q) ==
  IF impl = "react" /\ fld \in {"start_date", "end_date"}
  THEN Contains(text, q)
  ELSE Contains(toLowerCase(text), toLowerCase(q))

\* A missing field counts as the empty string
FieldText(e, fld) == IF Has(e, fld) THEN e[fld] ELSE <<>>

AllFiveHold(e, F) == \A fld \in FieldSet : FieldHolds(fld, FieldText(e, fld), F[fld])

\* recompute(dataset, filters) of the filter contract
Recompute(d, F) == SelectSeq(d, LAMBDA e : AllFiveHold(e, F))

\* v is d with some elements left out
IsSubsequence(v, d) ==
  \E pos \in [DOMAIN v -> DOMAIN d] :
    /\ \A i \in DOMAIN v : v[i] = d[pos[i]]
    /\ \A i, j \in DOMAIN v : i < j => pos[i] < pos[j]

-----------------------------------------------------------------------------
(* Properties                                                              *)

\* C1: for a dataset of complete records, after a filter run (the React
\* filter effect, the script's handleFilterChange) a record of the dataset is
\* in the filtered view if and only if all five field tests hold at once.
C1_AllFiveFieldTests ==
  (Recomputed /\ AllComplete(Dataset)) =>
    \A k \in DOMAIN Dataset :
      (\E j \in DOMAIN View : View[j] = Dataset[k])
        <=> AllFiveHold(Dataset[k], FilterState)

\* C1 witness: a filter run kept one of two complete records and dropped the other
C1_Witness ==
  /\ Recomputed /\ last = "filter" /\ AllComplete(Dataset)
  /\ Len(Dataset) = 2 /\ Len(View) = 1
  /\ Cardinality({fld \in FieldSet : FilterState[fld] # <<>>}) >= 2

\* C2: in every reachable state the filtered view is a sub-sequence of the
\* canonical dataset: only its records, none twice, in its order.
C2_ViewIsSubsequence == IsSubsequence(View, Dataset)

\* C2 witness: a filter run with a non-empty filter kept two different records
C2_Witness ==
  /\ Recomputed /\ last = "filter" /\ FilterState # EmptyFilters
  /\ Len(View) = 2 /\ View[1] # View[2]

\* C10: the panel starts expanded, changes only by the toggle, which flips
\* it and leaves the filter strings, the dataset and the view as they were.
C10_PanelToggle ==
  [][/\ last = "init" => filtersExpanded
     /\ filtersExpanded' # filtersExpanded => last' = "toggle"
     /\ last' = "toggle" =>
          /\ filtersExpanded' = ~filtersExpanded
          /\ filters' = filters
          /\ events' = events
          /\ filteredEvents' = filteredEvents]_vars

\* C10 witness: the panel is collapsed while a filter hides part of the dataset
C10_Witness ==
  /\ impl = "react" /\ last = "toggle" /\ ~filtersExpanded
  /\ filters # EmptyFilters
  /\ filteredEvents # events /\ filteredEvents # <<>>

\* C3: after a load that failed (network error, non-success status, payload
\* that is not a collection of records) the dataset and the view are empty
\* and no exception has propagated.
C3_FailedLoadIsEmpty ==
  loadState \in {"network_error", "bad_status", "malformed"} =>
    /\ Dataset = <<>>
    /\ View = <<>>
    /\ ~crashed
    /\ ~threw

\* C4: with a loaded dataset that has a record lacking a field, no
\* recomputation throws, and the view is the recomputation in which the
\* missing field is the empty string.
C4_MissingFieldIsEmptyString ==
  (loadState = "loaded" /\ ~AllComplete(Dataset)) =>
    /\ ~crashed
    /\ ~threw
    /\ (IF impl = "react" THEN ~effectPending ELSE last = "filter") =>
         View = Recompute(Dataset, FilterState)

\* C5: once the handler and its effects have run to completion, the view
\* equals recompute(dataset, filter state), whichever of the load and the
\* filter input came first (stated for datasets of complete records, on
\* which no recomputation throws).
C5_ViewNeverStale ==
  (Quiescent /\ AllComplete(Dataset)) =>
    View = Recompute(Dataset, FilterState)

\* C6: for every dataset, a recomputation with all five filter strings empty
\* yields the dataset unchanged.
C6_IdentityLaw ==
  /\ (impl = "react" /\ ~effectPending /\ filters = EmptyFilters
        /\ loadState \in {"pending", "loaded"}) =>
       (~crashed /\ filteredEvents = events)
  /\ (impl = "script" /\ last = "filter" /\ inputs = EmptyFilters) =>
       (~threw /\ filteredData = eventsData)

\* C6 on datasets of complete records only
C6_IdentityLawComplete == AllComplete(Dataset) => C6_IdentityLaw

\* The operand of the running variant's predicate for field fld, applied to
\* a field text and a filter string as typed
VariantFieldTest(fld, text, q) ==
  IF impl = "react" THEN ReactFieldTest(fld, text, q)
  ELSE ScriptFieldTest(fld, text, toLowerCase(q))

\* C7: within a variant the five fields follow one case rule: a field text
\* and a filter string give the same outcome whichever field's test is
\* applied to them.
C7_OneCaseRule ==
  \A k \in DOMAIN Dataset : \A src \in FieldSet : \A typed \in FieldSet :
    Has(Dataset[k], src) =>
      \A f, g \in FieldSet :
        VariantFieldTest(f, Dataset[k][src], FilterState[typed])
          = VariantFieldTest(g, Dataset[k][src], FilterState[typed])

\* The record's url, or its aliased link, is an absolute http or https URL
HasHttpUrl(e) ==
  isValidHttpUrl(IF Has(e, "url") /\ e.url # <<>> THEN e.url ELSE FieldText(e, "link"))

\* C8: every renderer emits a link for a record of the view only if the
\* record's url (or link) is an absolute http or https URL.
C8_LinkOnlyIfHttp ==
  /\ \A k \in DOMAIN View :
       /\ rowHtml(View[k]).anchor => HasHttpUrl(View[k])
       /\ (impl = "react" /\ ~crashed /\ ReactRow(View[k]).anchor) => HasHttpUrl(View[k])
  /\ \A k \in DOMAIN tbody :
       tbody[k].anchor => HasHttpUrl(filteredData[k])

\* The anchor of rowHtml alone
C8_RowHtmlOnly == \A k \in DOMAIN View : rowHtml(View[k]).anchor => HasHttpUrl(View[k])

\* The frame part of C9: only the load changes the canonical dataset
C9_FrameOnly == [][loadState' = loadState => Dataset' = Dataset]_vars

\* C9: only the load changes the canonical dataset, so once a filter edit
\* has cleared the last filter the view is the full dataset again.
C9_DatasetOnlyByLoad ==
  [][/\ loadState' = loadState => Dataset' = Dataset
     /\ (/\ last' = "filter"
         /\ FilterState' = EmptyFilters
         /\ (impl = "react" => ~effectPending')) =>
          (View' = Dataset' /\ ~crashed')]_vars

====
